---- MODULE Spec2Model ----
(***************************************************************************)
(* Model of employee_app.py: the single-threaded synchronisation pipeline  *)
(* main_loop -> process_and_merge_biometric_with_employee_data             *)
(* (fetch_biometric_data, fetch_employee_data, merge, date filter)         *)
(* -> head(5) -> push_data_to_erp.                                         *)
(*                                                                         *)
(* The device, the roster endpoint and the check-in endpoint are the       *)
(* environment: every reply they can give is a nondeterministic choice.    *)
(* Rows are 1-based here (Python/pandas positions are 0-based).            *)
(***************************************************************************)
EXTENDS Integers, Sequences, FiniteSets, TLC

\* ------------------------------------------------------------------ bounds
\* Longest attendance list a device returns in the model.
MaxEvents == 2
\* Roster pages after which the page offset and the accumulated roster
\* saturate in the model (the program itself has no such limit).
MaxPages == 2

\* ----------------------------------------------------- local_config values
\* local_config is imported, not part of the sources: a concrete
\* configuration with more devices than shifts.
devices ==
  << [device_id |-> "D1", ip |-> "10.0.0.1", port |-> 4370],
     [device_id |-> "D2", ip |-> "10.0.0.2", port |-> 4371],
     [device_id |-> "D3", ip |-> "10.0.0.3", port |-> 4372] >>
SHIFT == << "S1", "S2" >>
START_DATE == 1
END_DATE == 2

\* ------------------------------------------------------- program constants
DefaultPort == 4370
limit_page_length == 1000
max_retries == 2
HeadRows == 5

\* ------------------------------------------------------------ environment
\* Device-assigned identifiers and timestamps a device can report.
UserIds == {1, 2}
Timestamps == 0 .. 3
\* NaN in the employee column of an unmatched row.
NaN == "NaN"
\* Status 0 stands for requests.exceptions.RequestException.
RequestException == 0
PostOutcomes == {RequestException, 200, 201, 204, 500}
\* Non-empty pages the backend can serve: a page may be shorter than
\* limit_page_length, and several employees may carry the same device identifier
\* (employee_name is carried along by the program and never read; it is left
\* out of the records).
RosterPages ==
  { << [attendance_device_id |-> 1, employee |-> "E1"] >>,
    << [attendance_device_id |-> 1, employee |-> "E1"],
       [attendance_device_id |-> 1, employee |-> "E2"],
       [attendance_device_id |-> 1, employee |-> "E3"] >> }
\* Replies of the roster endpoint: a page of records (possibly empty), a body
\* without the 'data' key, a RequestException after the transport retries,
\* a body that is no JSON (response.json() raises JSONDecodeError, which is
\* a RequestException in requests 2.27 and later and a plain ValueError
\* before), or a JSON body that is no object, such as a number or null.
RosterResponses ==
  { [kind |-> "page", data |-> << >>],
    [kind |-> "nokey", data |-> << >>],
    [kind |-> "error", data |-> << >>],
    [kind |-> "malformed", data |-> << >>],
    [kind |-> "notobject", data |-> << >>] }
  \cup { [kind |-> "page", data |-> p] : p \in RosterPages }

SeqsUpTo(S, n) == UNION { [1 .. k -> S] : k \in 0 .. n }

\* Attendance lists with the user_id field, and lists whose records lack it.
EventsWithUserId ==
  SeqsUpTo([user_id : UserIds, timestamp : Timestamps], MaxEvents)
EventsWithoutUserId ==
  SeqsUpTo([timestamp : Timestamps], MaxEvents) \ { << >> }

\* ------------------------------------------------------------------ state
VARIABLES
  pc,            \* position of the single thread of control
  shift_index,   \* main_loop's counter (the spec's cycle_index)
  zk,            \* fetch_biometric_data: address and port of the ZK client
  conn,          \* fetch_biometric_data: "none", "open" or "closed"
  attendances,   \* fetch_biometric_data: records read from the device
  device_data,   \* process_and_merge...: list returned by the adapter
  limit_start,   \* fetch_employee_data: offset of the next page
  response,      \* fetch_employee_data: reply to the request in flight
  all_data,      \* fetch_employee_data: records accumulated so far
  emp_df,        \* roster frame used by the merge
  result_df,     \* the left join of line 117, before the date filter
  ret,           \* what process_and_merge... returned: "unset", "None", "df"
  filtered_df,   \* the returned frame (rows in order), when ret = "df"
  df,            \* push_data_to_erp's argument: filtered_df.head(5)
  idx,           \* push_data_to_erp: position of the row being iterated
  retry_count,   \* push_data_to_erp: failed attempts for the current row
  success,       \* push_data_to_erp: current row delivered
  payload,       \* push_data_to_erp: body built for the current row
  last_status,   \* outcome of the latest POST of the current row (-1: none)
  \* observation of the run (not program variables)
  attempts,      \* POSTs issued for the current row
  posted,        \* rows of this cycle that received at least one POST
  posts,         \* POSTs issued in this cycle
  failed,        \* rows of this cycle abandoned after max_retries
  fetches,       \* calls of fetch_employee_data in this cycle
  connects,      \* connections established in this cycle
  disconnects,   \* calls of conn.disconnect() in this cycle
  events_read,   \* records get_attendance returned in this cycle (-1: none)
  adapter,       \* how fetch_biometric_data ended in this cycle
  visited        \* device_id of every cycle started, in order

vars ==
  << pc, shift_index, zk, conn, attendances, device_data, limit_start, response,
     all_data, emp_df, result_df, ret, filtered_df, df, idx, retry_count,
     success, payload, last_status, attempts, posted, posts, failed, fetches,
     connects, disconnects, events_read, adapter, visited >>

\* Variable groups left alone by the actions of another function.
deviceVars ==
  << zk, conn, attendances, connects, disconnects, events_read, adapter >>
rosterVars == << limit_start, response, all_data, fetches >>
pushVars ==
  << df, idx, retry_count, success, payload, last_status, attempts, posted,
     posts, failed >>

NoClient == [ip |-> "", port |-> 0]
NoResponse == [kind |-> "none", data |-> << >>]
NoPayload == [employee |-> NaN, time |-> "", shift |-> ""]

\* ------------------------------------------------------- pure functions
\* devices[shift_index % len(devices)] and SHIFT[shift_index % len(SHIFT)]
\* (ShiftOffByOne: a variant that pairs the cycle with the next label).
device == devices[(shift_index % Len(devices)) + 1]
ShiftOffByOne == SHIFT[((shift_index + 1) % Len(SHIFT)) + 1]
shift == SHIFT[(shift_index % Len(SHIFT)) + 1]

\* 'user_id' in df.columns: a column exists when some record has the field.
HasUserId(data) == \E i \in 1 .. Len(data) : "user_id" \in DOMAIN data[i]

\* Lines 100-108: shift added to every record, user_id renamed.
Frame(data, s) ==
  [i \in 1 .. Len(data) |->
     [attendance_device_id |-> data[i].user_id,
      timestamp |-> data[i].timestamp,
      shift |-> s]]

\* Roster rows whose key equals k, in roster order.
RECURSIVE Matches(_, _)
Matches(emp, k) ==
  IF emp = << >> THEN << >>
  ELSE IF Head(emp).attendance_device_id = k
       THEN << Head(emp) >> \o Matches(Tail(emp), k)
       ELSE Matches(Tail(emp), k)

\* Variant that joins like an inner join: an unmatched row contributes nothing.
JoinRowInner(row, emp) ==
  LET m == Matches(emp, row.attendance_device_id)
  IN  [j \in 1 .. Len(m) |->
         [attendance_device_id |-> row.attendance_device_id,
          timestamp |-> row.timestamp,
          shift |-> row.shift,
          employee |-> m[j].employee]]

\* Variant of the join that keeps a null row next to the matching rows.
JoinRowWithNullRow(row, emp) ==
  LET m == Matches(emp, row.attendance_device_id)
      With(e) == [attendance_device_id |-> row.attendance_device_id,
                  timestamp |-> row.timestamp,
                  shift |-> row.shift,
                  employee |-> e]
  IN  << With(NaN) >> \o [j \in 1 .. Len(m) |-> With(m[j].employee)]

\* The rows one left row contributes to a left join: one per matching roster
\* row, or a single row with a NaN employee when nothing matches.
JoinRow(row, emp) ==
  LET m == Matches(emp, row.attendance_device_id)
      With(e) == [attendance_device_id |-> row.attendance_device_id,
                  timestamp |-> row.timestamp,
                  shift |-> row.shift,
                  employee |-> e]
  IN  IF m = << >> THEN << With(NaN) >>
      ELSE [j \in 1 .. Len(m) |-> With(m[j].employee)]

\* pd.merge(df, emp_df, on='attendance_device_id', how='left').
RECURSIVE Merge(_, _)
Merge(left, emp) ==
  IF left = << >> THEN << >>
  ELSE JoinRow(Head(left), emp) \o Merge(Tail(left), emp)

\* Variant of the mask that drops a timestamp equal to END_DATE.
InRangeExclusiveEnd(t) == t >= START_DATE /\ t < END_DATE

\* Line 123: the mask of the date filter.
InRange(t) == t >= START_DATE /\ t <= END_DATE

RECURSIVE DateFilter(_)
DateFilter(rows) ==
  IF rows = << >> THEN << >>
  ELSE IF InRange(Head(rows).timestamp)
       THEN << Head(rows) >> \o DateFilter(Tail(rows))
       ELSE DateFilter(Tail(rows))

\* Variants of head(n): one row short, and no truncation at all.
HeadOneShort(rows, n) ==
  SubSeq(rows, 1, IF Len(rows) < n THEN Len(rows) ELSE n - 1)
HeadKeepsAll(rows, n) == rows

\* DataFrame.head(n).
HeadOf(rows, n) == SubSeq(rows, 1, IF Len(rows) < n THEN Len(rows) ELSE n)

\* Variant of the null test that never skips a row.
IsNullNever(e) == FALSE

\* pd.isnull(row['employee']).
IsNull(e) == e = NaN

\* Timestamp.isoformat(): day t of the modelled calendar as text.
IsoFormat(t) ==
  << "2024-01-01T00:00:00", "2024-01-02T00:00:00",
     "2024-01-03T00:00:00", "2024-01-04T00:00:00" >>[t + 1]

\* Line 157: response.status_code in [200, 201].
IsSuccess(status) == status \in {200, 201}

\* Lines 88-92: an exception leaving fetch_biometric_data is caught and the
\* device is skipped; the value is where control goes.
AfterAdapterException == "returned"

\* Locals of a cycle, as they are before the cycle starts.
CycleLocalsInit ==
  /\ zk = NoClient
  /\ conn = "none"
  /\ attendances = << >>
  /\ device_data = << >>
  /\ limit_start = 0
  /\ response = NoResponse
  /\ all_data = << >>
  /\ emp_df = << >>
  /\ result_df = << >>
  /\ ret = "unset"
  /\ filtered_df = << >>
  /\ df = << >>
  /\ idx = 0
  /\ retry_count = 0
  /\ success = FALSE
  /\ payload = NoPayload
  /\ last_status = -1
  /\ attempts = 0
  /\ posted = {}
  /\ posts = 0
  /\ failed = {}
  /\ fetches = 0
  /\ connects = 0
  /\ disconnects = 0
  /\ events_read = -1
  /\ adapter = "unset"

Init ==
  /\ pc = "loop"
  /\ shift_index = 0
  /\ visited = << >>
  /\ CycleLocalsInit

\* ------------------------------------------------------------- main_loop
\* Lines 204-206: the counter has passed the last device.
ProcessCompleted ==
  /\ pc = "loop"
  /\ shift_index >= Len(devices)
  /\ pc' = "done"
  /\ UNCHANGED << shift_index, deviceVars, device_data, rosterVars, emp_df,
                  result_df, ret, filtered_df, pushVars, visited >>

\* Lines 208-210, 84-89, 13-16: a cycle starts and the adapter is called.
StartCycle ==
  /\ pc = "loop"
  /\ shift_index < Len(devices)
  /\ visited' = Append(visited, device.device_id)
  /\ zk' = [ip |-> device.ip, port |-> DefaultPort]
  /\ pc' = "connect"
  /\ UNCHANGED << shift_index, conn, attendances, connects, disconnects,
                  events_read, adapter, device_data, rosterVars, emp_df,
                  result_df, ret, filtered_df, pushVars >>

\* ---------------------------------------------------- fetch_biometric_data
\* Line 18: zk.connect() returns a connection or raises.
Connect ==
  /\ pc = "connect"
  /\ \E ok \in BOOLEAN :
       IF ok THEN /\ conn' = "open"
                  /\ connects' = connects + 1
                  /\ pc' = "get_attendance"
             ELSE /\ UNCHANGED << conn, connects >>
                  /\ pc' = "finally"
  /\ UNCHANGED << shift_index, zk, attendances, disconnects, events_read,
                  adapter, device_data, rosterVars, emp_df, result_df, ret,
                  filtered_df, pushVars, visited >>

\* Line 19: conn.get_attendance() returns the buffered records.
GetAttendance ==
  /\ pc = "get_attendance"
  /\ \E evs \in EventsWithUserId \cup EventsWithoutUserId :
       /\ attendances' = evs
       /\ events_read' = Len(evs)
  /\ pc' = "finally"
  /\ UNCHANGED << shift_index, zk, conn, connects, disconnects, adapter,
                  device_data, rosterVars, emp_df, result_df, ret,
                  filtered_df, pushVars, visited >>

\* Lines 19, 21-22: conn.get_attendance() raises; attendances stays [].
GetAttendanceFails ==
  /\ pc = "get_attendance"
  /\ pc' = "finally"
  /\ UNCHANGED << shift_index, deviceVars, device_data, rosterVars, emp_df,
                  result_df, ret, filtered_df, pushVars, visited >>

\* What the observation records of a returned list.
Returned(data) ==
  IF data = << >> THEN "empty"
  ELSE IF HasUserId(data) THEN "events" ELSE "no_user_id"

\* Lines 23-26 with no connection: nothing to release, the list is returned
\* and the adapter's locals go out of scope.
ReturnWithoutConnection ==
  /\ pc = "finally"
  /\ conn # "open"
  /\ device_data' = attendances
  /\ adapter' = Returned(attendances)
  /\ zk' = NoClient
  /\ attendances' = << >>
  /\ pc' = "check_data"
  /\ UNCHANGED << shift_index, conn, connects, disconnects, events_read,
                  rosterVars, emp_df, result_df, ret, filtered_df, pushVars,
                  visited >>

\* Variant of Disconnect that releases the connection only when the
\* retrieval returned a list.
DisconnectOnlyOnSuccess ==
  /\ pc = "finally"
  /\ conn = "open"
  /\ disconnects' = IF events_read = -1 THEN disconnects ELSE disconnects + 1
  /\ device_data' = attendances
  /\ adapter' = Returned(attendances)
  /\ zk' = NoClient
  /\ conn' = "none"
  /\ attendances' = << >>
  /\ pc' = "check_data"
  /\ UNCHANGED << shift_index, connects, events_read, rosterVars, emp_df,
                  result_df, ret, filtered_df, pushVars, visited >>

\* Lines 23-26: conn.disconnect() succeeds and the list is returned.
\* The adapter's locals (zk, conn, attendances) go out of scope.
Disconnect ==
  /\ pc = "finally"
  /\ conn = "open"
  /\ disconnects' = disconnects + 1
  /\ device_data' = attendances
  /\ adapter' = Returned(attendances)
  /\ zk' = NoClient
  /\ conn' = "none"
  /\ attendances' = << >>
  /\ pc' = "check_data"
  /\ UNCHANGED << shift_index, connects, events_read, rosterVars, emp_df,
                  result_df, ret, filtered_df, pushVars, visited >>

\* Lines 25, 88-92: conn.disconnect() raises inside finally; the exception
\* leaves the adapter and process_and_merge... returns None.
DisconnectFails ==
  /\ pc = "finally"
  /\ conn = "open"
  /\ disconnects' = disconnects + 1
  /\ adapter' = "raised"
  /\ zk' = NoClient
  /\ conn' = "none"
  /\ attendances' = << >>
  /\ ret' = "None"
  /\ pc' = AfterAdapterException
  /\ UNCHANGED << shift_index, connects, events_read, device_data, rosterVars,
                  emp_df, result_df, filtered_df, pushVars, visited >>

\* ------------------------- process_and_merge_biometric_with_employee_data
\* Variant of NoData in which the roster was fetched before the check.
NoDataAfterFetch ==
  /\ pc = "check_data"
  /\ device_data = << >>
  /\ fetches' = fetches + 1
  /\ ret' = "None"
  /\ pc' = "returned"
  /\ UNCHANGED << shift_index, deviceVars, device_data, limit_start, response,
                  all_data, emp_df, result_df, filtered_df, pushVars, visited >>

\* Lines 95-97: no biometric data, the device is skipped.
NoData ==
  /\ pc = "check_data"
  /\ device_data = << >>
  /\ ret' = "None"
  /\ device_data' = << >>
  /\ pc' = "returned"
  /\ UNCHANGED << shift_index, deviceVars, rosterVars, emp_df, result_df,
                  filtered_df, pushVars, visited >>

\* Lines 107-111: the frame has no user_id column, the device is skipped.
NoUserId ==
  /\ pc = "check_data"
  /\ device_data # << >>
  /\ ~HasUserId(device_data)
  /\ ret' = "None"
  /\ device_data' = << >>
  /\ pc' = "returned"
  /\ UNCHANGED << shift_index, deviceVars, rosterVars, emp_df, result_df,
                  filtered_df, pushVars, visited >>

\* Lines 114, 30-47: fetch_employee_data is called.
CallFetchEmployeeData ==
  /\ pc = "check_data"
  /\ device_data # << >>
  /\ HasUserId(device_data)
  /\ fetches' = fetches + 1
  /\ limit_start' = 0
  /\ all_data' = << >>
  /\ pc' = "roster_get"
  /\ UNCHANGED << shift_index, deviceVars, device_data, response, emp_df,
                  result_df, ret, filtered_df, pushVars, visited >>

\* ----------------------------------------------------- fetch_employee_data
\* Lines 50-58: one page is requested at offset limit_start; the reply is
\* whatever the backend sends (the transport-level retries are inside).
RosterGet ==
  /\ pc = "roster_get"
  /\ \E r \in RosterResponses : response' = r
  /\ pc' = "roster_resp"
  /\ UNCHANGED << shift_index, deviceVars, device_data, limit_start, all_data,
                  fetches, emp_df, result_df, ret, filtered_df, pushVars,
                  visited >>

\* Lines 60-66: a non-empty page is appended and the next page is requested.
\* Past MaxPages pages the model keeps the offset and the records as they
\* are; the loop itself goes on as in the program.
RosterPage ==
  /\ pc = "roster_resp"
  /\ response.kind = "page"
  /\ response.data # << >>
  /\ all_data' = IF limit_start < MaxPages * limit_page_length
                 THEN all_data \o response.data ELSE all_data
  /\ limit_start' = IF limit_start < MaxPages * limit_page_length
                    THEN limit_start + limit_page_length ELSE limit_start
  /\ response' = NoResponse
  /\ pc' = "roster_get"
  /\ UNCHANGED << shift_index, deviceVars, device_data, fetches, emp_df,
                  result_df, ret, filtered_df, pushVars, visited >>

\* Lines 63-64, 67-68, 70-72, 74-80: an empty page, a body without 'data',
\* a RequestException or a body that is no JSON (caught where
\* JSONDecodeError is a RequestException) ends the loop; the accumulated
\* records are returned and the fetcher's counters go out of scope. The
\* last reply stays visible until the merge has run.
RosterEnd ==
  /\ pc = "roster_resp"
  /\ ~(response.kind = "page" /\ response.data # << >>)
  /\ response.kind # "notobject"
  /\ emp_df' = all_data
  /\ limit_start' = 0
  /\ all_data' = << >>
  /\ pc' = "merge"
  /\ UNCHANGED << shift_index, deviceVars, device_data, response, fetches,
                  result_df, ret, filtered_df, pushVars, visited >>

\* Lines 60-61, 70, 114, 210: 'data' in data raises TypeError when the body
\* is a JSON number or null, and response.json() raises a ValueError that
\* is no RequestException in requests before 2.27. Neither is caught by
\* line 70, by process_and_merge_biometric_with_employee_data (the call of
\* line 114 is outside its try) or by main_loop: the process ends.
RosterRaises ==
  /\ pc = "roster_resp"
  /\ response.kind \in {"malformed", "notobject"}
  /\ pc' = "crashed"
  /\ UNCHANGED << shift_index, deviceVars, device_data, rosterVars, emp_df,
                  result_df, ret, filtered_df, pushVars, visited >>

\* Lines 99-125: shift column, left join, date filter; the filtered frame is
\* returned. The function's locals are still there at the return and go out
\* of scope with main_loop's next statement.
MergeAndFilter ==
  /\ pc = "merge"
  /\ result_df' = Merge(Frame(device_data, shift), emp_df)
  /\ filtered_df' = DateFilter(result_df')
  /\ ret' = "df"
  /\ response' = NoResponse
  /\ pc' = "returned"
  /\ UNCHANGED << shift_index, deviceVars, device_data, limit_start, all_data,
                  fetches, emp_df, pushVars, visited >>

\* ------------------------------------------------- main_loop, after the call
\* Every local of the cycle goes out of scope when the cycle ends.
ResetCycleLocals ==
  /\ zk' = NoClient
  /\ conn' = "none"
  /\ attendances' = << >>
  /\ device_data' = << >>
  /\ limit_start' = 0
  /\ response' = NoResponse
  /\ all_data' = << >>
  /\ emp_df' = << >>
  /\ result_df' = << >>
  /\ ret' = "unset"
  /\ filtered_df' = << >>
  /\ df' = << >>
  /\ idx' = 0
  /\ retry_count' = 0
  /\ success' = FALSE
  /\ payload' = NoPayload
  /\ last_status' = -1
  /\ attempts' = 0
  /\ posted' = {}
  /\ posts' = 0
  /\ failed' = {}
  /\ fetches' = 0
  /\ connects' = 0
  /\ disconnects' = 0
  /\ events_read' = -1
  /\ adapter' = "unset"

\* Variant of SkipCycle that forgets the increment of line 214.
SkipCycleNoIncrement ==
  /\ pc = "returned"
  /\ (ret = "None" \/ filtered_df = << >>)
  /\ shift_index' = shift_index
  /\ ResetCycleLocals
  /\ pc' = "loop"
  /\ UNCHANGED visited

\* Lines 212-216: None or an empty frame, the device is skipped.
SkipCycle ==
  /\ pc = "returned"
  /\ (ret = "None" \/ filtered_df = << >>)
  /\ shift_index' = shift_index + 1
  /\ ResetCycleLocals
  /\ pc' = "loop"
  /\ UNCHANGED visited

\* Variant of CallPush that drops the rows with a null employee before it
\* takes the first rows.
CallPushDropsNullFirst ==
  /\ pc = "returned"
  /\ ret = "df"
  /\ filtered_df # << >>
  /\ df' = HeadOf(SelectSeq(filtered_df, LAMBDA r : r.employee # NaN),
                  HeadRows)
  /\ idx' = 1
  /\ device_data' = << >>
  /\ emp_df' = << >>
  /\ result_df' = << >>
  /\ pc' = "push_row"
  /\ UNCHANGED << shift_index, deviceVars, rosterVars, ret, filtered_df,
                  retry_count, success, payload, last_status, attempts,
                  posted, posts, failed, visited >>

\* Lines 218-222, 128-136: the first rows are handed to push_data_to_erp.
CallPush ==
  /\ pc = "returned"
  /\ ret = "df"
  /\ filtered_df # << >>
  /\ df' = HeadOf(filtered_df, HeadRows)
  /\ idx' = 1
  /\ device_data' = << >>
  /\ emp_df' = << >>
  /\ result_df' = << >>
  /\ pc' = "push_row"
  /\ UNCHANGED << shift_index, deviceVars, rosterVars, ret, filtered_df,
                  retry_count, success, payload, last_status, attempts,
                  posted, posts, failed, visited >>

\* --------------------------------------------------------- push_data_to_erp
\* Lines 136, 173: the rows are exhausted, True is returned.
PushReturn ==
  /\ pc = "push_row"
  /\ idx > Len(df)
  /\ pc' = "pushed"
  /\ UNCHANGED << shift_index, deviceVars, device_data, rosterVars, emp_df,
                  result_df, ret, filtered_df, pushVars, visited >>

\* Lines 137-139: a row with a null employee is skipped.
SkipNullRow ==
  /\ pc = "push_row"
  /\ idx <= Len(df)
  /\ IsNull(df[idx].employee)
  /\ idx' = idx + 1
  /\ UNCHANGED << pc, shift_index, deviceVars, device_data, rosterVars,
                  emp_df, result_df, ret, filtered_df, df, retry_count,
                  success, payload, last_status, attempts, posted, posts,
                  failed, visited >>

\* Lines 141-152: the payload is built and the retry loop is entered.
BuildPayload ==
  /\ pc = "push_row"
  /\ idx <= Len(df)
  /\ ~IsNull(df[idx].employee)
  /\ payload' = [employee |-> df[idx].employee,
                 time |-> IsoFormat(df[idx].timestamp),
                 shift |-> df[idx].shift]
  /\ retry_count' = 0
  /\ success' = FALSE
  /\ last_status' = -1
  /\ attempts' = 0
  /\ pc' = "retry"
  /\ UNCHANGED << shift_index, deviceVars, device_data, rosterVars, emp_df,
                  result_df, ret, filtered_df, df, idx, posted, posts, failed,
                  visited >>

\* Variant of the loop condition that allows one attempt too many.
RetryOneMore == retry_count <= max_retries /\ ~success

\* Variant of the loop condition that does not look at success.
RetryIgnoresSuccess == retry_count < max_retries

\* Line 153: the condition of the retry loop.
RetryCondition == retry_count < max_retries /\ ~success

\* Lines 153-168: one POST; 200 or 201 delivers the row, any other status or
\* a RequestException counts one failed attempt.
Post ==
  /\ pc = "retry"
  /\ RetryCondition
  /\ \E status \in PostOutcomes :
       /\ last_status' = status
       /\ success' = IsSuccess(status)
       /\ retry_count' = IF IsSuccess(status) THEN retry_count
                         ELSE retry_count + 1
  /\ attempts' = attempts + 1
  /\ posted' = posted \cup {idx}
  /\ posts' = posts + 1
  /\ UNCHANGED << pc, shift_index, deviceVars, device_data, rosterVars,
                  emp_df, result_df, ret, filtered_df, df, idx, payload,
                  failed, visited >>

\* Variant of RowDone that leaves the batch when a row is abandoned.
RowDoneAborts ==
  /\ pc = "retry"
  /\ ~RetryCondition
  /\ failed' = IF success THEN failed ELSE failed \cup {idx}
  /\ idx' = idx + 1
  /\ retry_count' = 0
  /\ success' = FALSE
  /\ payload' = NoPayload
  /\ last_status' = -1
  /\ attempts' = 0
  /\ pc' = IF success THEN "push_row" ELSE "pushed"
  /\ UNCHANGED << shift_index, deviceVars, device_data, rosterVars, emp_df,
                  result_df, ret, filtered_df, df, posted, posts, visited >>

\* Lines 153, 170-171, 136: the retry loop ends, delivered or abandoned, and
\* the iteration moves to the next row. The locals of the finished row are
\* never read again (lines 141-152 assign them anew), so they are cleared.
RowDone ==
  /\ pc = "retry"
  /\ ~RetryCondition
  /\ failed' = IF success THEN failed ELSE failed \cup {idx}
  /\ idx' = idx + 1
  /\ retry_count' = 0
  /\ success' = FALSE
  /\ payload' = NoPayload
  /\ last_status' = -1
  /\ attempts' = 0
  /\ pc' = "push_row"
  /\ UNCHANGED << shift_index, deviceVars, device_data, rosterVars, emp_df,
                  result_df, ret, filtered_df, df, posted, posts, visited >>

\* Lines 224-225: the cycle is over, the counter moves on.
AdvanceCycle ==
  /\ pc = "pushed"
  /\ shift_index' = shift_index + 1
  /\ ResetCycleLocals
  /\ pc' = "loop"
  /\ UNCHANGED visited

Next ==
  \/ ProcessCompleted
  \/ StartCycle
  \/ Connect
  \/ GetAttendance
  \/ GetAttendanceFails
  \/ ReturnWithoutConnection
  \/ Disconnect
  \/ DisconnectFails
  \/ NoData
  \/ NoUserId
  \/ CallFetchEmployeeData
  \/ RosterGet
  \/ RosterPage
  \/ RosterEnd
  \/ RosterRaises
  \/ MergeAndFilter
  \/ SkipCycle
  \/ CallPush
  \/ PushReturn
  \/ SkipNullRow
  \/ BuildPayload
  \/ Post
  \/ RowDone
  \/ AdvanceCycle

Spec == Init /\ [][Next]_vars

\* The single thread always takes its next step: no call blocks for ever.
FairSpec == Spec /\ WF_vars(Next)

\* ================================================================ claims
\* Rows of a frame with a non-null employee; every row of filtered_df already
\* lies inside [START_DATE, END_DATE].
Eligible(rows) ==
  { i \in 1 .. Len(rows) :
      /\ rows[i].employee # NaN
      /\ rows[i].timestamp >= START_DATE
      /\ rows[i].timestamp <= END_DATE }

\* push_data_to_erp has returned: the deliveries of the cycle are over.
PushReturned == pc = "pushed"

\* C1 as stated: when the deliveries of a cycle are over, every eligible row
\* of the merge result has received at least one POST, however many rows the
\* merge produced.
C1_EveryEligibleRowPosted ==
  PushReturned => \A i \in Eligible(filtered_df) : i \in posted

\* C1 amended: when the deliveries of a cycle are over, every eligible row
\* among the first 5 rows of the merge result has received at least one POST.
C1_EligibleRowsWithinCapPosted ==
  PushReturned =>
    \A i \in Eligible(filtered_df) : i <= HeadRows => i \in posted

\* C1 witness: a cycle whose merge result has more than 5 rows ends with an
\* eligible row posted.
C1_Witness ==
  /\ PushReturned
  /\ Len(filtered_df) > HeadRows
  /\ \E i \in Eligible(filtered_df) : i \in posted

\* C2: at most the first 5 rows of the merge result, in their order, are
\* handed to push_data_to_erp, and no row after the fifth is ever POSTed.
C2_OnlyFirstFiveSubmitted ==
  /\ posted \subseteq 1 .. HeadRows
  /\ pc \in {"push_row", "retry", "pushed"} =>
       /\ Len(df) <= HeadRows
       /\ Len(df) <= Len(filtered_df)
       /\ Len(filtered_df) > HeadRows => Len(df) = HeadRows
       /\ \A i \in 1 .. Len(df) : df[i] = filtered_df[i]

\* C2 witness: more than 5 valid rows, POSTs for rows 1..5 exactly.
C2_Witness ==
  /\ PushReturned
  /\ Len(filtered_df) > HeadRows
  /\ Eligible(filtered_df) = 1 .. Len(filtered_df)
  /\ posted = 1 .. HeadRows

\* C3: a row with a null employee never receives a POST and never becomes a
\* payload, and the non-null rows that follow it are still POSTed.
C3_NullEmployeeNeverPosted ==
  /\ \A i \in posted : df[i].employee # NaN
  /\ pc = "retry" => payload.employee # NaN
  /\ PushReturned =>
       \A i \in 1 .. Len(df) : \A j \in (i + 1) .. Len(df) :
         (df[i].employee = NaN /\ df[j].employee # NaN) => j \in posted

\* C3 witness: a batch with a null row followed by a row that was POSTed.
C3_Witness ==
  /\ PushReturned
  /\ \E i \in 1 .. Len(df) : \E j \in (i + 1) .. Len(df) :
       df[i].employee = NaN /\ j \in posted

\* C4: a row never receives more than max_retries POSTs; a row is abandoned
\* only after exactly max_retries failed POSTs; an abandoned row lies behind
\* the iteration, so it is never POSTed again.
C4_RetryExhaustion ==
  /\ [](/\ attempts <= max_retries
        /\ \A i \in failed : i < idx)
  /\ [][failed' \ failed # {} =>
          /\ failed' = failed \cup {idx}
          /\ attempts = max_retries
          /\ ~success]_vars

\* C4 witness: a row whose max_retries POSTs were all answered with 500.
C4_Witness ==
  /\ pc = "retry"
  /\ attempts = max_retries
  /\ retry_count = max_retries
  /\ last_status = 500
  /\ ~success

\* C5: when a row is abandoned the batch goes on: once push_data_to_erp has
\* returned, every non-null row after an abandoned row has had its POST, and
\* abandoning a row never ends the run.
C5_FailureIsRowLocal ==
  /\ failed # {} => pc \in {"push_row", "retry", "pushed"}
  /\ PushReturned =>
       \A i \in failed : \A j \in (i + 1) .. Len(df) :
         df[j].employee # NaN => j \in posted

\* C5 witness: push_data_to_erp returned after a row was abandoned and a
\* later row was POSTed.
C5_Witness ==
  /\ PushReturned
  /\ \E i \in failed : \E j \in (i + 1) .. Len(df) : j \in posted

\* C6 as stated: a row is POSTed again only after a transport exception or a
\* status outside 200..299, and the row counts as delivered exactly when the
\* status is 200 or 201.
C6_RetryOnlyAfterErrorOrNon2xx ==
  /\ [](pc = "retry" /\ attempts > 0 =>
          (success <=> last_status \in {200, 201}))
  /\ [][(attempts' = attempts + 1 /\ attempts > 0) =>
          \/ last_status = RequestException
          \/ last_status < 200
          \/ last_status > 299]_vars

\* C7 as stated: the counter starts at 0 and moves by steps of 1; the cycles started so
\* far are those of devices[1..k] in list order, one per value of the
\* counter; no failure of a cycle ends the run: a finished cycle, whatever
\* happened in it, hands over to the loop head with the counter advanced, and
\* the run ends only with every device visited once.
C7_EachDeviceOnceInOrder ==
  /\ shift_index = 0
  /\ [](/\ pc # "crashed"
        /\ shift_index \in 0 .. Len(devices)
        /\ Len(visited) =
             shift_index + (IF pc \in {"loop", "done"} THEN 0 ELSE 1)
        /\ \A i \in 1 .. Len(visited) : visited[i] = devices[i].device_id
        /\ pc = "done" => shift_index = Len(devices))
  /\ [][/\ shift_index' \in {shift_index, shift_index + 1}
        /\ (pc = "pushed" /\ pc' # pc) =>
             (pc' = "loop" /\ shift_index' = shift_index + 1)
        /\ (pc = "returned" /\ pc' # pc) =>
             \/ pc' = "loop" /\ shift_index' = shift_index + 1
             \/ pc' = "push_row" /\ shift_index' = shift_index]_vars

\* C8 as stated: whatever the devices and the backend do, the scheduler
\* eventually reaches DONE with the counter equal to the number of devices.
C8_Termination == <>(pc = "done" /\ shift_index = Len(devices))

\* C9: in a cycle whose device returned zero attendance records no POST is
\* issued and push_data_to_erp is never entered, and the cycle ends with the
\* counter incremented and control back at the loop head.
C9_NoEventsNoPost ==
  /\ [](events_read = 0 =>
          /\ posted = {}
          /\ attempts = 0
          /\ pc \notin {"push_row", "retry", "pushed"})
  /\ [][(events_read = 0 /\ pc = "returned") =>
          (pc' = "loop" /\ shift_index' = shift_index + 1)]_vars

\* C9 witness: a device returned an empty list and the cycle is about to end.
C9_Witness ==
  /\ events_read = 0
  /\ adapter = "empty"
  /\ pc = "returned"

\* A cycle is past process_and_merge_biometric_with_employee_data.
CycleProcessed == pc \in {"returned", "push_row", "retry", "pushed"}

\* C10 as stated: the roster is fetched exactly once in every cycle, also
\* when the device returned no events or the events lack the join key.
C10_FetchedOnceEveryCycle == CycleProcessed => fetches = 1

\* C10 amended: the roster is fetched exactly once in every cycle whose
\* adapter returned a non-empty list carrying the join key and not at all in
\* any other cycle; the merge uses the roster of its own cycle, and no roster
\* is left when the next cycle starts.
C10_FetchedOncePerCycleWithEvents ==
  /\ fetches <= 1
  /\ CycleProcessed => fetches = (IF adapter = "events" THEN 1 ELSE 0)
  /\ pc \in {"roster_get", "roster_resp", "merge"} => fetches = 1
  /\ pc = "loop" => (fetches = 0 /\ emp_df = << >> /\ all_data = << >>)

\* C10 witness: a processed cycle with one fetch, after an earlier cycle.
C10_Witness ==
  /\ CycleProcessed
  /\ shift_index > 0
  /\ adapter = "events"
  /\ fetches = 1

\* process_and_merge_biometric_with_employee_data has just returned a frame:
\* the raw events, the roster, the join and the filtered frame are in view.
MergeReturned == pc = "returned" /\ ret = "df"

\* The rows of a frame whose timestamp lies in [START_DATE, END_DATE].
InsideWindow(rows) ==
  SelectSeq(rows, LAMBDA r :
    r.timestamp >= START_DATE /\ r.timestamp <= END_DATE)

\* C11: the filtered frame consists of exactly the joined rows with
\* START_DATE <= timestamp <= END_DATE, in their order: rows at START_DATE
\* or END_DATE are kept, rows before START_DATE or after END_DATE dropped.
C11_DateWindowInclusive ==
  MergeReturned =>
    /\ filtered_df = InsideWindow(result_df)
    /\ \A i \in 1 .. Len(result_df) :
         result_df[i].timestamp \in {START_DATE, END_DATE} =>
           \E j \in 1 .. Len(filtered_df) : filtered_df[j] = result_df[i]
    /\ \A j \in 1 .. Len(filtered_df) :
         /\ filtered_df[j].timestamp >= START_DATE
         /\ filtered_df[j].timestamp <= END_DATE

\* C11 witness: a join with a row at END_DATE, which is kept, and a row
\* after END_DATE, which is dropped.
C11_Witness ==
  /\ MergeReturned
  /\ \E i \in 1 .. Len(result_df) : result_df[i].timestamp = END_DATE
  /\ \E i \in 1 .. Len(result_df) : result_df[i].timestamp > END_DATE
  /\ \E j \in 1 .. Len(filtered_df) : filtered_df[j].timestamp = END_DATE
  /\ Len(filtered_df) < Len(result_df)

\* The adapter has ended and get_attendance never returned a list: the
\* connection or the retrieval raised.
OutageSeen == adapter # "unset" /\ events_read = -1

\* C12 as stated: whenever connecting or retrieving raised, the adapter
\* returned an empty collection instead of raising, and the cycle issues no
\* POST.
C12_OutageReturnsEmpty ==
  /\ OutageSeen => adapter = "empty"
  /\ events_read = -1 => (posts = 0 /\ posted = {})

\* fetch_biometric_data is running: its ZK client exists.
InAdapter == pc \in {"connect", "get_attendance", "finally"}

\* C13 as stated: in cycle i the adapter's client addresses devices[i], with
\* that entry's network address and that entry's configured port.
C13_ConnectsToConfiguredPort ==
  InAdapter =>
    /\ zk.ip = devices[shift_index + 1].ip
    /\ zk.port = devices[shift_index + 1].port

\* C14: in cycle i every row carries SHIFT[i mod M] and every POST body is
\* built from the current row of this cycle's frame with that label, and the
\* adapter of the cycle reads from the address of devices[i mod N].
C14_ShiftByCycleIndex ==
  LET label == SHIFT[(shift_index % Len(SHIFT)) + 1]
      entry == devices[(shift_index % Len(devices)) + 1]
  IN  /\ InAdapter => zk.ip = entry.ip
      /\ pc \notin {"loop", "done"} => visited[Len(visited)] = entry.device_id
      /\ \A i \in 1 .. Len(result_df) : result_df[i].shift = label
      /\ \A i \in 1 .. Len(filtered_df) : filtered_df[i].shift = label
      /\ \A i \in 1 .. Len(df) : df[i].shift = label
      /\ pc = "retry" =>
           /\ payload.shift = label
           /\ payload.employee = df[idx].employee
           /\ payload.time = IsoFormat(df[idx].timestamp)

\* C14 witness: a POST of the third cycle, which wraps around to the first
\* of the two shift labels.
C14_Witness ==
  /\ pc = "retry"
  /\ attempts > 0
  /\ shift_index = 2
  /\ Len(SHIFT) = 2
  /\ payload.shift = SHIFT[1]

\* Roster rows of emp_df that carry the device-assigned identifier k.
RosterRowsFor(k) ==
  { j \in 1 .. Len(emp_df) : emp_df[j].attendance_device_id = k }

\* Rows the join holds for raw event i: one per roster row carrying its
\* identifier, and one when no roster row does.
RowsOfEvent(i) ==
  LET n == Cardinality(RosterRowsFor(device_data[i].user_id))
  IN  IF n = 0 THEN 1 ELSE n

\* Rows the join holds for the raw events before event i.
RECURSIVE RowsBefore(_)
RowsBefore(i) == IF i <= 1 THEN 0 ELSE RowsBefore(i - 1) + RowsOfEvent(i - 1)

\* C15: the join, before the date filter, is the raw events in their order,
\* each event (repeated events included) standing for itself with its
\* identifier and timestamp: with a null employee when no roster row carries
\* its identifier, with the employee of a matching roster row otherwise.
C15_LeftJoinKeepsEveryEvent ==
  MergeReturned =>
    /\ Len(result_df) = RowsBefore(Len(device_data) + 1)
    /\ Len(result_df) >= Len(device_data)
    /\ \A i \in 1 .. Len(device_data) :
         \A k \in (RowsBefore(i) + 1) .. (RowsBefore(i) + RowsOfEvent(i)) :
           /\ result_df[k].attendance_device_id = device_data[i].user_id
           /\ result_df[k].timestamp = device_data[i].timestamp
           /\ IF RosterRowsFor(device_data[i].user_id) = {}
              THEN result_df[k].employee = NaN
              ELSE \E j \in RosterRowsFor(device_data[i].user_id) :
                     result_df[k].employee = emp_df[j].employee

\* C15 witness: a join of two events against a non-empty roster, the first
\* unmatched, the second matched.
C15_Witness ==
  /\ MergeReturned
  /\ Len(device_data) = 2
  /\ emp_df # << >>
  /\ result_df[1].employee = NaN
  /\ result_df[2].employee # NaN

\* The reply in flight is a page with records in it.
NonEmptyPage == response.kind = "page" /\ response.data # << >>

\* C16 as stated: the first request is at offset 0 with nothing
\* accumulated; a non-empty page is appended and the next request is
\* limit_page_length further; an empty page, a body without the records key, a request error
\* or a malformed body ends the loop at that page and the records
\* accumulated so far are returned, nothing being raised. (Offsets and
\* records are followed up to MaxPages pages.)
C16_Pagination ==
  /\ [](pc \in {"roster_get", "roster_resp"} =>
          \E k \in 0 .. MaxPages : limit_start = k * limit_page_length)
  /\ [][/\ (pc = "check_data" /\ pc' = "roster_get") =>
             (limit_start' = 0 /\ all_data' = << >>)
        /\ (pc = "roster_get" /\ pc' # pc) =>
             (pc' = "roster_resp" /\ UNCHANGED << limit_start, all_data >>)
        /\ (pc = "roster_resp" /\ NonEmptyPage
              /\ limit_start < MaxPages * limit_page_length) =>
             /\ pc' = "roster_get"
             /\ limit_start' = limit_start + limit_page_length
             /\ all_data' = all_data \o response.data
        /\ (pc = "roster_resp" /\ ~NonEmptyPage) =>
             /\ pc' = "merge"
             /\ emp_df' = all_data]_vars

\* fetch_biometric_data has ended in this cycle, by return or by exception.
AdapterEnded == adapter # "unset"

\* C17: a connection is released once and only after it was established:
\* while the adapter connects and retrieves nothing is released; when the
\* adapter has ended, an established connection has had one disconnect
\* call, whether the retrieval returned or raised; with no connection
\* established there is no disconnect call and the adapter has not raised.
C17_ConnectionReleased ==
  /\ connects \in {0, 1}
  /\ disconnects <= connects
  /\ pc \in {"connect", "get_attendance", "finally"} => disconnects = 0
  /\ AdapterEnded => disconnects = connects
  /\ (AdapterEnded /\ connects = 0) =>
       (disconnects = 0 /\ adapter = "empty" /\ events_read = -1)

\* C17 witness: the connection was established, the retrieval raised, and
\* the adapter returned after one disconnect call.
C17_Witness ==
  /\ adapter = "empty"
  /\ events_read = -1
  /\ connects = 1
  /\ disconnects = 1

\* The rows of the filtered join result that lie within the first 5.
WithinCap == { i \in 1 .. Len(filtered_df) : i <= HeadRows }

\* C18: the rows POSTed so far are rows of the first 5 of the filtered join
\* result with a non-null employee, and when the deliveries are over they are
\* exactly those rows; a null row among the first 5 takes one of the 5
\* places, so rows attempted plus null rows is the size of the batch, at
\* most 5; a cycle issues at most 5 * max_retries POSTs.
C18_TruncationBeforeNullSkip ==
  pc \in {"push_row", "retry", "pushed"} =>
    /\ posted \subseteq { i \in WithinCap : filtered_df[i].employee # NaN }
    /\ PushReturned =>
         /\ posted = { i \in WithinCap : filtered_df[i].employee # NaN }
         /\ Cardinality(posted)
              + Cardinality({ i \in WithinCap : filtered_df[i].employee = NaN })
              = Cardinality(WithinCap)
    /\ Cardinality(posted) <= HeadRows
    /\ posts <= HeadRows * max_retries

\* C18 witness: more than 5 rows with a null row among the first 5; the
\* other four were POSTed, and a non-null row behind the fifth was not.
C18_Witness ==
  /\ PushReturned
  /\ Len(filtered_df) > HeadRows
  /\ \E i \in WithinCap : filtered_df[i].employee = NaN
  /\ Cardinality(posted) = HeadRows - 1
  /\ \E j \in 1 .. Len(filtered_df) :
       j > HeadRows /\ filtered_df[j].employee # NaN /\ j \notin posted

\* The step issues a POST.
PostIssued == posts' = posts + 1

\* C19: a POST is issued only for the row under the iteration and only
\* while no POST for it has succeeded; success means the last status was 200
\* or 201; the iteration only moves forward, so a row once left (delivered
\* or abandoned) is never POSTed again in its cycle; and no device has a
\* second cycle in which its rows could be submitted again.
C19_NoResubmissionAfterSuccess ==
  /\ [](/\ success => (pc = "retry" /\ last_status \in {200, 201}
                         /\ idx \in posted)
        /\ \A i \in posted : i <= idx
        /\ \A i \in 1 .. Len(visited) : \A j \in 1 .. Len(visited) :
             visited[i] = visited[j] => i = j)
  /\ [][/\ PostIssued =>
             (pc = "retry" /\ ~success /\ idx' = idx
                /\ posted' = posted \cup {idx})
        /\ (pc \in {"push_row", "retry"} /\ pc' \in {"push_row", "retry"}) =>
             idx' >= idx
        /\ (success /\ pc' # pc) => (idx' = idx + 1 /\ posts' = posts)]_vars

\* C19 witness: the first row was delivered by its first POST, with a
\* further attempt still allowed by the retry count, and the iteration is at
\* the second row with that one POST issued.
C19_Witness ==
  /\ pc = "push_row"
  /\ idx = 2
  /\ posted = {1}
  /\ failed = {}
  /\ posts = 1

\* No raw event of the cycle has its identifier on more than one roster row.
RosterKeysUnique ==
  \A i \in 1 .. Len(device_data) :
    Cardinality(RosterRowsFor(device_data[i].user_id)) <= 1

\* C20 as stated: the merged rows of a cycle are never more than the raw
\* events, whatever identifiers the roster records carry.
C20_AtMostOneRowPerEvent ==
  MergeReturned =>
    /\ Len(result_df) <= Len(device_data)
    /\ Len(filtered_df) <= Len(device_data)

\* C20 amended: the date filter adds no row; when no event's identifier is
\* on more than one roster row, the join has one row per raw event and the
\* merged rows are not more than the raw events; in general an event has at
\* most one row per roster row, so the join has at most events times roster
\* rows.
C20_OneRowPerEventUniqueKeys ==
  MergeReturned =>
    /\ Len(filtered_df) <= Len(result_df)
    /\ RosterKeysUnique =>
         /\ Len(result_df) = Len(device_data)
         /\ Len(filtered_df) <= Len(device_data)
    /\ Len(result_df) <=
         Len(device_data) * (IF emp_df = << >> THEN 1 ELSE Len(emp_df))

\* C20 witness: two events matched by the single roster row that carries
\* their identifier give two merged rows.
C20_Witness ==
  /\ MergeReturned
  /\ Len(emp_df) = 1
  /\ Len(device_data) = 2
  /\ Len(filtered_df) = 2
  /\ \A k \in 1 .. 2 : filtered_df[k].employee # NaN

====
